---- MODULE Spec2Model ----
(***************************************************************************)
(* Model of cftool.dist.core.Parallel (non-Windows path): the supervisor   *)
(* of Parallel.__call__, the worker adapter Parallel._f_wrapper._inner and *)
(* the shared result store self._rs.                                       *)
(*                                                                         *)
(* The supervisor is one sequential process (pc), every worker is one OS   *)
(* process (wpc[t]); they interleave at every access of the shared store.  *)
(* cftool.manage.ResourceManager is not part of the sources at hand: its   *)
(* admission decision is modelled from the specification text.             *)
(***************************************************************************)
EXTENDS Integers, Sequences, FiniteSets, TLC

\* ---------------------------------------------------------------- bounds
MaxTasks == 3
MaxJobs == 3

\* The argument column holds small integers.  For the function "task":
\* 1 makes it return a mapping with a truthy terminate key, 2 makes it raise.
ArgValues == {0, 1, 2}
Funcs == {"identity", "task"}

\* Python's None in the slot lists (task ids and process handles are >= 0).
NoneId == 0 - 1

\* bounds of the batches run with the GPU options
MaxCudaTasks == 2
MaxCudaJobs == 2

\* bounds of the batches run with the signatures of the task function
MaxSignatureTasks == 2
MaxSignatureJobs == 2

\* available_cuda_list = None ("all devices")
NoneList == <<NoneId>>

\* gpu_config without the key, with None, with [] and with device lists
GpuConfigs == {<<>>, <<NoneList>>, << <<>> >>, << <<0>> >>, << <<0, 1>> >>}

\* device ids the host enumerates when no list is given
HostDevices == {0, 1}

VARIABLES
    n_tasks,            \* len(args_list[0])
    num_jobs,           \* self._n_jobs
    func,               \* self._func
    args,               \* self._args_list[0]
    signature,          \* inspect.signature(self._func).parameters, in order
    use_cuda,           \* self._use_cuda
    gpu_config,         \* resource_config["gpu_config"]: <<>> without the key
                        \* available_cuda_list, else <<its value>>
    pc,                 \* position of the supervisor in __call__
    manager,            \* self._sync_manager: "none" | "running" | "shutdown"
    rs,                 \* self._rs: [meta, exceptions, tasks]
    cursor,             \* self._cursor
    all_task_ids,       \* self._all_task_ids
    init_processes,     \* local init_processes of __call__
    working_assigned,   \* FALSE while self._working_processes is None
    working_task_ids,   \* self._working_task_ids
    working_processes,  \* self._working_processes
    n_new_jobs,         \* iterations left of the loop of _add_new_processes
    new_process,        \* value _get_process is about to return
    records,            \* worker records kept by the resource manager
    checkpoint_initialized,
    registered,         \* resource kinds registered with the resource manager
    sup_exc,            \* supervisor's local copy of __exceptions__
    sup_meta,           \* supervisor's local copy of __meta__
    err,                \* exception propagating in the supervisor
    interrupted,        \* "none", or where the parent was when the interrupt arrived
    wpc,                \* position of each worker process
    wexc,               \* worker's local copy of __exceptions__
    wmeta,              \* worker's local copy of __meta__
    cuda,               \* device id handed to _f_wrapper for each worker
    kwargs              \* names of the keywords each worker passed to the function

vars == <<n_tasks, num_jobs, func, args, signature, use_cuda, gpu_config, pc, manager, rs,
          cursor, all_task_ids, init_processes, working_assigned, working_task_ids,
          working_processes, n_new_jobs, new_process, records,
          checkpoint_initialized, registered, sup_exc, sup_meta, err, interrupted,
          wpc, wexc, wmeta, cuda, kwargs>>

inputs == <<n_tasks, num_jobs, func, args, signature, use_cuda, gpu_config>>
slots == <<working_assigned, working_task_ids, working_processes>>
queue == <<cursor, all_task_ids>>
sup_locals == <<init_processes, n_new_jobs, new_process, sup_exc, sup_meta>>
workers == <<wpc, wexc, wmeta, cuda, kwargs>>

\* ---------------------------------------------------------------- helpers
Min(a, b) == IF a <= b THEN a ELSE b

\* list(range(a, b))
Range(a, b) == [i \in 1..(IF b > a THEN b - a ELSE 0) |-> a + i - 1]

TaskIds == 0..(n_tasks - 1)

TaskNameTable == <<"task_0", "task_1", "task_2", "task_3", "task_4", "task_5">>

\* _get_task_name with task_names = None and an empty name suffix
TaskName(task_id) == TaskNameTable[task_id + 1]

EmptyMap == [k \in {} |-> [kind |-> "none", x |-> 0]]

\* value of a local copy of __meta__ that is not in use
NoMeta == [n_jobs |-> 0, n_tasks |-> 0, terminated |-> FALSE]

\* m[k] = v on a Python dict
Put(m, k, v) == (k :> v) @@ m

Value(x) == [kind |-> "value", x |-> x]
TerminateMap(x) == [kind |-> "terminate", x |-> x]
Error(name) == [kind |-> name, x |-> 0]

\* inspect.Parameter: a name, a kind, and whether it has no default
Param(name, kind, required) == [name |-> name, kind |-> kind, required |-> required]

\* def f(x)
PlainSignature == <<Param("x", "POSITIONAL_OR_KEYWORD", TRUE)>>

\* the signatures def f(x, ...) can have with the names cuda and log_method:
\* each of them absent or declared with one of the kinds given, with or
\* without defaults, an optional **kwargs; parameters in the order Python
\* requires (positional-only, positional-or-keyword, keyword-only, **kwargs)
CudaKinds == {"absent", "POSITIONAL_ONLY", "POSITIONAL_OR_KEYWORD", "KEYWORD_ONLY"}
LogMethodKinds == {"absent", "POSITIONAL_OR_KEYWORD", "KEYWORD_ONLY"}
Declared(name, kind, declared_kind, required) ==
    IF kind = declared_kind THEN <<Param(name, kind, required)>> ELSE <<>>
SignatureOf(cuda_kind, log_kind, var_keyword, required) ==
    (IF cuda_kind = "POSITIONAL_ONLY"
     THEN <<Param("x", "POSITIONAL_ONLY", TRUE)>>
              \o Declared("cuda", "POSITIONAL_ONLY", cuda_kind, required)
     ELSE <<Param("x", "POSITIONAL_OR_KEYWORD", TRUE)>>)
    \o Declared("cuda", "POSITIONAL_OR_KEYWORD", cuda_kind, required)
    \o Declared("log_method", "POSITIONAL_OR_KEYWORD", log_kind, required)
    \o Declared("cuda", "KEYWORD_ONLY", cuda_kind, required)
    \o Declared("log_method", "KEYWORD_ONLY", log_kind, required)
    \o (IF var_keyword THEN <<Param("kwargs", "VAR_KEYWORD", FALSE)>> ELSE <<>>)
Signatures ==
    {SignatureOf(c, l, k, r) : c \in CudaKinds, l \in LogMethodKinds,
                               k \in BOOLEAN, r \in BOOLEAN}

\* _inner, lines 334-346: the loop over the parameters, from parameter i on,
\* with the flags found so far
RECURSIVE Wants(_, _, _)
Wants(sig, i, flags) ==
    IF i > Len(sig) THEN flags
    ELSE IF sig[i].kind = "VAR_KEYWORD"
         THEN [cuda |-> TRUE, log_method |-> TRUE]
    ELSE IF sig[i].kind = "POSITIONAL_OR_KEYWORD" /\ sig[i].name = "cuda"
         THEN Wants(sig, i + 1, [flags EXCEPT !.cuda = TRUE])
    ELSE IF sig[i].kind = "POSITIONAL_OR_KEYWORD" /\ sig[i].name = "log_method"
         THEN Wants(sig, i + 1, [flags EXCEPT !.log_method = TRUE])
    ELSE Wants(sig, i + 1, flags)

\* _inner, lines 333-357: the keys of kwargs
KwargsOf(sig) ==
    LET wants == Wants(sig, 1, [cuda |-> FALSE, log_method |-> FALSE]) IN
    (IF wants.cuda THEN {"cuda"} ELSE {}) \cup
    (IF wants.log_method THEN {"log_method"} ELSE {})

\* Python's binding of f(*args, **kwargs) with one positional argument: it
\* fails for a keyword no parameter takes and for a parameter without default
\* that gets no argument
BindingFails(sig, passed) ==
    LET by_keyword == {i \in 1..Len(sig) :
                          sig[i].kind \in {"POSITIONAL_OR_KEYWORD", "KEYWORD_ONLY"}}
        takes(name) == \E i \in by_keyword : sig[i].name = name
        var_keyword == \E i \in 1..Len(sig) : sig[i].kind = "VAR_KEYWORD"
    IN  \/ \E name \in passed : ~takes(name) /\ ~var_keyword
        \/ \E i \in 2..Len(sig) :
              /\ sig[i].required
              /\ ~(i \in by_keyword /\ sig[i].name \in passed)

\* self._func(*args): what the user function does on one argument
Call(f, x) ==
    IF f = "identity" THEN [raised |-> FALSE, rs |-> Value(x)]
    ELSE IF x = 2 THEN [raised |-> TRUE, rs |-> Error("ValueError")]
    ELSE IF x = 1 THEN [raised |-> FALSE, rs |-> TerminateMap(x)]
    ELSE [raised |-> FALSE, rs |-> Value(x)]

\* variant of WantsTerminate that never sees the terminate key
NeverWantsTerminate(r) == FALSE

\* isinstance(rs, dict) and rs.get("terminate", False)
WantsTerminate(r) == r.kind = "terminate"

\* property terminated
terminated == rs.meta.terminated

\* property exceptions
exceptions == rs.exceptions

Started(t) == wpc[t] \notin {"none", "created"}
Alive(t) == Started(t) /\ wpc[t] # "exited"
StartedSet == {t \in TaskIds : Started(t)}
LiveSet == {t \in TaskIds : Alive(t)}

\* ---------------------------------------------------------------- Init
\* __init__, lines 67-77, and the state __call__ starts from
Constructed ==
    /\ pc = "call"
    /\ manager = "none"
    /\ rs = [meta |-> NoMeta,
             exceptions |-> EmptyMap, tasks |-> EmptyMap]
    /\ cursor = 0
    /\ all_task_ids = <<>>
    /\ init_processes = <<>>
    /\ working_assigned = FALSE
    /\ working_task_ids = <<>>
    /\ working_processes = <<>>
    /\ n_new_jobs = 0
    /\ new_process = NoneId
    /\ records = {}
    /\ checkpoint_initialized = FALSE
    /\ registered = {}
    /\ sup_exc = EmptyMap
    /\ sup_meta = NoMeta
    /\ err = "none"
    /\ interrupted = "none"
    /\ wpc = [t \in 0..(n_tasks - 1) |-> "none"]
    /\ wexc = [t \in 0..(n_tasks - 1) |-> EmptyMap]
    /\ wmeta = [t \in 0..(n_tasks - 1) |-> NoMeta]
    /\ cuda = [t \in 0..(n_tasks - 1) |-> NoneId]
    /\ kwargs = [t \in 0..(n_tasks - 1) |-> {}]

\* Parallel(num_jobs)(f, args): every option at its default
Init ==
    /\ n_tasks \in 0..MaxTasks
    /\ num_jobs \in 1..MaxJobs
    /\ func \in Funcs
    /\ args \in [0..(n_tasks - 1) -> ArgValues]
    /\ signature = PlainSignature
    /\ use_cuda = FALSE
    /\ gpu_config = <<>>
    /\ Constructed

\* Parallel(num_jobs, use_cuda=..., resource_config={"gpu_config": ...})(f, args)
InitCuda ==
    /\ n_tasks \in 0..MaxCudaTasks
    /\ num_jobs \in 1..MaxCudaJobs
    /\ func \in Funcs
    /\ args \in [0..(n_tasks - 1) -> ArgValues]
    /\ signature = PlainSignature
    /\ use_cuda \in BOOLEAN
    /\ gpu_config \in GpuConfigs
    /\ Constructed

\* Parallel(num_jobs, use_cuda=...)(f, args) for the signatures of f
InitSignature ==
    /\ n_tasks \in 1..MaxSignatureTasks
    /\ num_jobs \in 1..MaxSignatureJobs
    /\ func = "identity"
    /\ args = [t \in 0..(n_tasks - 1) |-> 0]
    /\ signature \in Signatures
    /\ use_cuda \in BOOLEAN
    /\ gpu_config \in {<<>>, << <<0>> >>}
    /\ Constructed

\* ---------------------------------------------------------------- supervisor: setup
\* __call__, lines 82-98: clamp the slots, build the pending queue, start the
\* sync manager and create the shared store.
StartSyncManager ==
    /\ pc = "call"
    /\ LET n_jobs == Min(num_jobs, n_tasks) IN
        /\ cursor' = 0
        /\ all_task_ids' = Range(n_jobs, n_tasks)
        /\ rs' = [meta |-> [n_jobs |-> n_jobs, n_tasks |-> n_tasks, terminated |-> FALSE],
                  exceptions |-> EmptyMap, tasks |-> EmptyMap]
    /\ manager' = "running"
    /\ pc' = "setup"
    /\ UNCHANGED <<inputs, slots, sup_locals, records, checkpoint_initialized, registered,
                   err, interrupted, workers>>

\* __call__, lines 112-114: gpu_config.setdefault("available_cuda_list", default)
DefaultCudaList == IF use_cuda THEN NoneList ELSE <<>>
AvailableCudaList == IF gpu_config = <<>> THEN DefaultCudaList ELSE gpu_config[1]

\* __call__, line 115: if available_cuda_list is None or available_cuda_list
RegistersGPU(available_cuda_list) ==
    available_cuda_list = NoneList \/ available_cuda_list # <<>>

\* __call__, lines 99-129: resource manager, RAM and GPU kinds, first refresh;
\* self._working_processes = None.  Still outside the try block.  No step of
\* it raises for an empty available_cuda_list: the GPU kind is just left out.
Setup ==
    /\ pc = "setup"
    /\ registered' = IF RegistersGPU(AvailableCudaList) THEN {"RAM", "GPU"} ELSE {"RAM"}
    /\ init_processes' = <<>>
    /\ working_assigned' = FALSE
    /\ pc' = "init_admit"
    /\ UNCHANGED <<inputs, manager, rs, queue, working_task_ids, working_processes,
                   n_new_jobs, new_process, sup_exc, sup_meta, records,
                   checkpoint_initialized, err, interrupted, workers>>

\* ResourceManager.record_process: a worker record is created
RecordProcess(recs, processes) == recs \cup (processes \ {NoneId})

\* ResourceManager.handle_finish: the worker record is removed on reap
HandleFinishRecords(recs, processes) == recs \ processes

\* ResourceManager.checkpoint_initialized once initialize_running_usages has
\* run (before that _refresh returns at line 249 and polls nothing)
InitializeRunningUsages == TRUE

\* ResourceManager.get_process: the admission decision.  The termination flag
\* set means "do not create"; otherwise headroom decides, which the supervisor
\* cannot predict.
Admission == IF terminated THEN {FALSE} ELSE {TRUE, FALSE}

\* GPUManager: the devices of the GPU kind
Devices ==
    IF AvailableCudaList = NoneList THEN HostDevices
    ELSE {AvailableCudaList[i] : i \in 1..Len(AvailableCudaList)}

\* ResourceManager.get_process: rs["GPU"]["tgt_resource_id"] of an admission,
\* None standing for an rs without the key "GPU"
TargetDevices == IF "GPU" \in registered THEN Devices ELSE {NoneId}

\* _get_process, lines 387-391: the cuda argument of _f_wrapper
CudaOf(tgt_resource_id) ==
    IF ~use_cuda \/ tgt_resource_id = NoneId THEN NoneId ELSE tgt_resource_id

\* _get_process(task_id, start=False): None, or the pair (process, rs)
Created(task_id) == <<task_id, task_id>>
NotCreated == <<>>

\* __call__, line 133: one element of the list comprehension
InitGetProcess ==
    /\ pc = "init_admit"
    /\ Len(init_processes) < rs.meta.n_jobs
    /\ LET i == Len(init_processes) IN
       \E create \in Admission, tgt \in TargetDevices :
          IF create
          THEN /\ init_processes' = Append(init_processes, Created(i))
               /\ wpc' = [wpc EXCEPT ![i] = "created"]
               /\ cuda' = [cuda EXCEPT ![i] = CudaOf(tgt)]
          ELSE /\ init_processes' = Append(init_processes, NotCreated)
               /\ wpc' = wpc
               /\ cuda' = cuda
    /\ UNCHANGED <<inputs, pc, manager, rs, queue, slots, n_new_jobs, new_process,
                   sup_exc, sup_meta, records, checkpoint_initialized, registered, err,
                   interrupted, wexc, wmeta, kwargs>>

\* slots of the initial wave whose admission failed (lines 137-140)
InitFailedSlots(procs) == {i \in 1..Len(procs) : procs[i] = NotCreated}

\* variant of InitFailedTaskIds that requeues every id of the initial wave
InitFailedTaskIdsAll(procs) == Range(0, Len(procs))

\* SelectSeq keeps the order of the ids
InitFailedTaskIds(procs) ==
    SelectSeq(Range(0, Len(procs)), LAMBDA t : procs[t + 1] = NotCreated)

\* lines 147-149: init_processes[slot] = [None] * 4
PadFailed(procs) ==
    [i \in 1..Len(procs) |->
        IF procs[i] = NotCreated THEN <<NoneId, NoneId, NoneId, NoneId>> ELSE procs[i]]

\* lines 147-148: init_task_ids[slot] = None
InitTaskIds(procs) ==
    [i \in 1..Len(procs) |-> IF procs[i] = NotCreated THEN NoneId ELSE i - 1]

\* number of tuples zip(*rows) produces: the shortest row, none for no rows
ZipLen(rows) ==
    IF rows = <<>> THEN 0
    ELSE CHOOSE n \in 0..4 :
            /\ \A i \in 1..Len(rows) : n <= Len(rows[i])
            /\ \E i \in 1..Len(rows) : n = Len(rows[i])

\* zip(*rows): column k of every row
ZipStar(rows) == [k \in 1..ZipLen(rows) |-> [i \in 1..Len(rows) |-> rows[i][k]]]

\* __call__, lines 134-152: the terminated check, the requeue of the failed
\* ids at the head of the pending list and the unpacking of the two columns.
InitProcesses ==
    /\ pc = "init_admit"
    /\ Len(init_processes) = rs.meta.n_jobs
    /\ IF terminated
       THEN \* _user_terminate iterates self._working_processes, which is None
            /\ err' = "TypeError"
            /\ pc' = "except"
            /\ UNCHANGED <<queue, slots>>
       ELSE LET padded == PadFailed(init_processes)
                columns == ZipStar(padded) IN
            /\ cursor' = cursor
            /\ all_task_ids' = IF InitFailedSlots(init_processes) # {}
                               THEN InitFailedTaskIds(init_processes) \o all_task_ids
                               ELSE all_task_ids
            /\ working_task_ids' = InitTaskIds(init_processes)
            /\ IF Len(columns) = 2
               THEN /\ working_processes' = columns[1]
                    /\ working_assigned' = TRUE
                    /\ err' = err
                    /\ pc' = "init_start"
               ELSE \* unpacking into two names fails
                    /\ err' = "ValueError"
                    /\ pc' = "except"
                    /\ UNCHANGED <<working_processes, working_assigned>>
    /\ init_processes' = <<>>  \* not used after line 152
    /\ UNCHANGED <<inputs, manager, rs, n_new_jobs, new_process,
                   sup_exc, sup_meta, records, checkpoint_initialized, registered, interrupted,
                   workers>>

\* slots holding a Process object that was created and not started yet
\* (join() on such a process fails its assertion)
NotStartedSlots == {i \in 1..Len(working_processes) :
                        /\ working_processes[i] # NoneId
                        /\ wpc[working_processes[i]] = "created"}

\* __call__, line 154: p.start() for the next process of the initial wave
StartInitial ==
    /\ pc = "init_start"
    /\ NotStartedSlots # {}
    /\ LET i == CHOOSE j \in NotStartedSlots : \A k \in NotStartedSlots : j <= k IN
       wpc' = [wpc EXCEPT ![working_processes[i]] = "check"]
    /\ UNCHANGED <<inputs, pc, manager, rs, queue, slots, sup_locals, records,
                   checkpoint_initialized, registered, err, interrupted, wexc, wmeta, cuda, kwargs>>

\* __call__, lines 155-157: record every started process, initialize the
\* running usages, enter the main loop.
InitializeRunning ==
    /\ pc = "init_start"
    /\ NotStartedSlots = {}
    /\ records' = RecordProcess(records,
                        {working_processes[i] : i \in 1..Len(working_processes)})
    /\ checkpoint_initialized' = InitializeRunningUsages
    /\ pc' = "wait"
    /\ UNCHANGED <<inputs, manager, rs, queue, slots, sup_locals, registered, err,
                   interrupted, workers>>

\* ---------------------------------------------------------------- supervisor: main loop
\* variant of FinishedSlots that does not count a slot holding None
FinishedSlotsIgnoringNone ==
    SelectSeq(Range(1, Len(working_processes) + 1),
              LAMBDA i : IF working_processes[i] = NoneId THEN FALSE
                         ELSE ~Alive(working_processes[i]))

\* __wait, lines 219-229: slots whose process is None or no longer alive,
\* in ascending order
FinishedSlots ==
    SelectSeq(Range(1, Len(working_processes) + 1),
              LAMBDA i : IF working_processes[i] = NoneId THEN TRUE
                         ELSE ~Alive(working_processes[i]))

\* list.pop(i)
Pop(list, i) == [k \in 1..(Len(list) - 1) |-> IF k < i THEN list[k] ELSE list[k + 1]]

\* lines 262-264: pop the finished slots, highest index first
RECURSIVE PopAll(_, _)
PopAll(list, finished) ==
    IF finished = <<>> THEN list
    ELSE PopAll(Pop(list, finished[Len(finished)]), SubSeq(finished, 1, Len(finished) - 1))

\* lines 262-266: the processes handed to handle_finish
FinishedProcesses == {working_processes[FinishedSlots[k]] : k \in 1..Len(FinishedSlots)}

\* variant of ObservesTerminated: the check of line 259 left out
NeverObservesTerminated == FALSE

\* _wait_and_handle_finish, line 259: if self.terminated
ObservesTerminated == terminated

\* _wait_and_handle_finish after __wait returned a non-empty list of finished
\* slots (lines 257-269): terminate if the flag is set, otherwise pop and reap.
HandleFinish(return_pc) ==
    IF ObservesTerminated
    THEN /\ pc' = "user_terminate"
         /\ UNCHANGED <<slots, records>>
    ELSE /\ working_task_ids' = PopAll(working_task_ids, FinishedSlots)
         /\ working_processes' = PopAll(working_processes, FinishedSlots)
         /\ working_assigned' = working_assigned
         /\ records' = HandleFinishRecords(records, FinishedProcesses)
         /\ pc' = return_pc

\* main loop, line 160: _wait_and_handle_finish(wait_until_finish=True).
\* With no finished slot __wait sleeps and polls again (no change of state).
WaitAndHandleFinish ==
    /\ pc = "wait"
    /\ FinishedSlots # <<>>
    /\ HandleFinish("add")
    /\ UNCHANGED <<inputs, manager, rs, queue, sup_locals, checkpoint_initialized, registered,
                   err, interrupted, workers>>

\* variant of FreeSlots that forgets the slots still in use
FreeSlotsIgnoringWorking(n_working) == num_jobs

\* _add_new_processes, line 273: free slots, from the unclamped num_jobs
FreeSlots(n_working) == num_jobs - n_working

\* _add_new_processes, lines 272-276 and 282-283
AddNewProcesses ==
    /\ pc = "add"
    /\ LET n_working == Len(working_processes)
           n_res == Len(all_task_ids) - cursor IN
       IF n_res > 0
       THEN /\ n_new_jobs' = Min(FreeSlots(n_working), n_res)
            /\ pc' = IF n_new_jobs' > 0 THEN "get_process" ELSE "wait"
       ELSE /\ n_new_jobs' = n_new_jobs
            /\ pc' = IF n_working > 0 THEN "wait" ELSE "finally"
    /\ UNCHANGED <<inputs, manager, rs, queue, slots, init_processes, new_process,
                   sup_exc, sup_meta, records, checkpoint_initialized, registered, err,
                   interrupted, workers>>

\* the refresh callback of an admission: __sleep(skip_check_finished=False),
\* i.e. _refresh and, re-entrantly, _wait_and_handle_finish(False)
Refresh ==
    /\ pc = "get_process"
    /\ checkpoint_initialized
    /\ FinishedSlots # <<>>
    /\ HandleFinish("get_process")
    /\ UNCHANGED <<inputs, manager, rs, queue, sup_locals, checkpoint_initialized, registered,
                   err, interrupted, workers>>

\* _get_process, lines 382-393: the admission decision for the task id under
\* the cursor; on admission the Process object is created.
GetProcess ==
    /\ pc = "get_process"
    /\ LET new_task_id == all_task_ids[cursor + 1] IN
       \E create \in Admission, tgt \in TargetDevices :
          IF create
          THEN /\ new_process' = new_task_id
               /\ wpc' = [wpc EXCEPT ![new_task_id] = "created"]
               /\ cuda' = [cuda EXCEPT ![new_task_id] = CudaOf(tgt)]
               /\ pc' = "start"
          ELSE /\ new_process' = NoneId
               /\ wpc' = wpc
               /\ cuda' = cuda
               /\ pc' = "append"
    /\ UNCHANGED <<inputs, manager, rs, queue, slots, init_processes, n_new_jobs,
                   sup_exc, sup_meta, records, checkpoint_initialized, registered, err,
                   interrupted, wexc, wmeta, kwargs>>

\* _get_process, lines 394-398: process.start() and _record_process
StartProcess ==
    /\ pc = "start"
    /\ wpc' = [wpc EXCEPT ![new_process] = "check"]
    /\ records' = RecordProcess(records, {new_process})
    /\ pc' = "append"
    /\ UNCHANGED <<inputs, manager, rs, queue, slots, sup_locals,
                   checkpoint_initialized, registered, err, interrupted, wexc, wmeta, cuda, kwargs>>

\* _add_new_processes, lines 279-281: append the process (or None) and its
\* task id, advance the cursor
AppendProcess ==
    /\ pc = "append"
    /\ working_processes' = Append(working_processes, new_process)
    /\ working_task_ids' = Append(working_task_ids, all_task_ids[cursor + 1])
    /\ working_assigned' = working_assigned
    /\ cursor' = cursor + 1
    /\ all_task_ids' = all_task_ids
    /\ n_new_jobs' = n_new_jobs - 1
    /\ pc' = IF n_new_jobs' > 0 THEN "get_process" ELSE "wait"
    /\ new_process' = NoneId  \* the local is dead after the append
    /\ UNCHANGED <<inputs, manager, rs, init_processes, sup_exc,
                   sup_meta, records, checkpoint_initialized, registered, err, interrupted,
                   workers>>

\* `if process is None: continue`, else process.join() returns
Joined(process) == IF process = NoneId THEN TRUE ELSE wpc[process] = "exited"

\* every process of the slot list has exited (what a loop of join() waits for)
AllJoined == \A i \in 1..Len(working_processes) : Joined(working_processes[i])

\* variant of UserTerminateError with the two messages the wrong way round
UserTerminateErrorSwapped(recorded_exceptions) ==
    IF DOMAIN recorded_exceptions = {}
    THEN "Parallel terminated by unexpected errors"
    ELSE "Parallel terminated by user action"

\* _user_terminate, lines 292-296: the error raised for the recorded exceptions
UserTerminateError(recorded_exceptions) ==
    IF DOMAIN recorded_exceptions = {}
    THEN "Parallel terminated by user action"
    ELSE "Parallel terminated by unexpected errors"

\* _user_terminate, lines 285-296: join the slots, then raise _ParallelError
UserTerminate ==
    /\ pc = "user_terminate"
    /\ AllJoined
    /\ err' = UserTerminateError(exceptions)
    /\ pc' = "except"
    /\ UNCHANGED <<inputs, manager, rs, queue, slots, sup_locals, records,
                   checkpoint_initialized, registered, interrupted, workers>>

\* ---------------------------------------------------------------- termination flag
\* variant of SetTerminated that flips the flag of the copy it read
SetTerminatedFlipped(meta) == [meta EXCEPT !.terminated = ~meta.terminated]

\* _set_terminate, line 300, on a copy of __meta__
SetTerminated(meta) == [meta EXCEPT !.terminated = TRUE]

\* __wait, line 234 -> _set_terminate, line 299: meta = self.meta
SetTerminateRead ==
    /\ pc = "set_terminate"
    /\ sup_meta' = rs.meta
    /\ pc' = "set_terminate_w"
    /\ UNCHANGED <<inputs, manager, rs, queue, slots, init_processes, n_new_jobs,
                   new_process, sup_exc, records, checkpoint_initialized, registered, err,
                   interrupted, workers>>

\* _set_terminate, lines 300-301, then __wait, line 235: raise _ParallelError
SetTerminateWrite ==
    /\ pc = "set_terminate_w"
    /\ rs' = [rs EXCEPT !.meta = SetTerminated(sup_meta)]
    /\ err' = "Keyboard Interrupted"
    /\ pc' = "except"
    /\ sup_meta' = NoMeta  \* the local is dead after the assignment
    /\ UNCHANGED <<inputs, manager, queue, slots, init_processes, n_new_jobs,
                   new_process, sup_exc, records, checkpoint_initialized, registered,
                   interrupted, workers>>

\* ---------------------------------------------------------------- except / finally
\* the value stored under "base": line 166 for KeyboardInterrupt, line 171
\* for any other exception
BaseError(e) == IF e = "KeyboardInterrupt" THEN Error("Keyboard Interrupted") ELSE Error(e)

\* __call__, lines 165 and 170: exceptions = self.exceptions
ExceptRead ==
    /\ pc = "except"
    /\ sup_exc' = exceptions
    /\ pc' = "except_w"
    /\ UNCHANGED <<inputs, manager, rs, queue, slots, init_processes, n_new_jobs,
                   new_process, sup_meta, records, checkpoint_initialized, registered, err,
                   interrupted, workers>>

\* what is still propagating when an except block of __call__ ends: the
\* blocks at lines 163-172 end without a raise
AfterExcept(e) == "none"

\* __call__, lines 166-167 and 171-172: exceptions["base"] = ...; assign back
ExceptWrite ==
    /\ pc = "except_w"
    /\ rs' = [rs EXCEPT !.exceptions = Put(sup_exc, "base", BaseError(err))]
    /\ err' = AfterExcept(err)
    /\ pc' = "finally"
    /\ sup_exc' = EmptyMap  \* the local is dead after the assignment
    /\ UNCHANGED <<inputs, manager, queue, slots, init_processes, n_new_jobs,
                   new_process, sup_meta, records, checkpoint_initialized, registered,
                   interrupted, workers>>

\* the join loop of lines 175-179 got through slots 1..n
JoinedUpTo(n) == \A i \in 1..n : Joined(working_processes[i])

\* __call__, lines 173-188: join what the slot list holds, snapshot the store
\* into a dict, shut the sync manager down, return (or re-raise what an except
\* block left pending).
Finally ==
    /\ pc = "finally"
    /\ IF working_assigned /\ NotStartedSlots # {}
       THEN \* join() of a process that was never started fails its assertion
            LET first == CHOOSE j \in NotStartedSlots : \A k \in NotStartedSlots : j <= k IN
            /\ JoinedUpTo(first - 1)
            /\ err' = "AssertionError"
            /\ pc' = "raised"
            /\ manager' = manager
       ELSE /\ working_assigned => AllJoined
            /\ manager' = "shutdown"
            /\ err' = err
            /\ pc' = IF err = "none" THEN "returned" ELSE "raised"
    /\ UNCHANGED <<inputs, rs, queue, slots, sup_locals, records,
                   checkpoint_initialized, registered, interrupted, workers>>

\* ---------------------------------------------------------------- interrupt of the parent
\* between the start of the sync manager and the try block (lines 95-129):
\* nothing catches it
InterruptSetup ==
    /\ interrupted = "none"
    /\ pc = "setup"
    /\ interrupted' = "setup"
    /\ err' = "KeyboardInterrupt"
    /\ pc' = "raised"
    /\ UNCHANGED <<inputs, manager, rs, queue, slots, sup_locals, records,
                   checkpoint_initialized, registered, workers>>

\* inside the try block but outside __wait (lines 131-157, _add_new_processes,
\* _get_process, the sleep of the refresh callback, _user_terminate, and the
\* except block of __wait): caught at line 163
InterruptTry ==
    /\ interrupted = "none"
    /\ pc \in {"init_admit", "init_start", "add", "get_process", "start", "append",
               "user_terminate", "set_terminate", "set_terminate_w"}
    /\ interrupted' = pc
    /\ err' = "KeyboardInterrupt"
    /\ pc' = "except"
    /\ UNCHANGED <<inputs, manager, rs, queue, slots, sup_locals, records,
                   checkpoint_initialized, registered, workers>>

\* inside __wait (the poll and sleep of the main loop, or the poll of a
\* re-entrant _wait_and_handle_finish): caught at line 233
InterruptWait ==
    /\ interrupted = "none"
    /\ \/ pc = "wait"
       \/ pc = "get_process" /\ checkpoint_initialized
    /\ interrupted' = "wait"
    /\ pc' = "set_terminate"
    /\ UNCHANGED <<inputs, manager, rs, queue, slots, sup_locals, records,
                   checkpoint_initialized, registered, err, workers>>

\* inside an except block (lines 164-172): the finally block runs and the
\* interrupt propagates out of __call__
InterruptExcept ==
    /\ interrupted = "none"
    /\ pc \in {"except", "except_w"}
    /\ interrupted' = "except"
    /\ err' = "KeyboardInterrupt"
    /\ pc' = "finally"
    /\ UNCHANGED <<inputs, manager, rs, queue, slots, sup_locals, records,
                   checkpoint_initialized, registered, workers>>

\* inside the finally block (lines 174-183): the rest of it is skipped
InterruptFinally ==
    /\ interrupted = "none"
    /\ pc = "finally"
    /\ interrupted' = "finally"
    /\ err' = "KeyboardInterrupt"
    /\ pc' = "raised"
    /\ UNCHANGED <<inputs, manager, rs, queue, slots, sup_locals, records,
                   checkpoint_initialized, registered, workers>>

\* ---------------------------------------------------------------- worker adapter
\* variant of AfterCheck that goes on whatever the flag says
AfterCheckIgnoringFlag(flag) == "call"

\* _inner, lines 329-331: return if the flag is set, else enter the try block
AfterCheck(flag) == IF flag THEN "exited" ELSE "call"

\* _inner, lines 329-330: if self.terminated: return
WorkerCheck(t) ==
    /\ wpc[t] = "check"
    /\ manager = "running"
    /\ wpc' = [wpc EXCEPT ![t] = AfterCheck(terminated)]
    /\ UNCHANGED <<inputs, pc, manager, rs, queue, slots, sup_locals, records,
                   checkpoint_initialized, registered, err, interrupted, wexc, wmeta, cuda, kwargs>>

\* _inner, line 358: self._func(*args, **kwargs)
Invoke(t, passed) ==
    IF BindingFails(signature, passed)
    THEN [raised |-> TRUE, rs |-> Error("TypeError")]
    ELSE Call(func, args[t])

\* _inner, lines 331-361 and 365-371: build kwargs, call the function; store
\* what it returns, or, when it raises, read __exceptions__
WorkerCall(t) ==
    /\ wpc[t] = "call"
    /\ manager = "running"
    /\ kwargs' = [kwargs EXCEPT ![t] = KwargsOf(signature)]
    /\ LET out == Invoke(t, KwargsOf(signature)) IN
       IF out.raised
       THEN /\ wexc' = [wexc EXCEPT ![t] = exceptions]
            /\ wpc' = [wpc EXCEPT ![t] = "record"]
            /\ rs' = rs
       ELSE /\ rs' = [rs EXCEPT !.tasks = Put(rs.tasks, TaskName(t), out.rs)]
            /\ wpc' = [wpc EXCEPT ![t] = IF WantsTerminate(out.rs) THEN "set_terminate"
                                         ELSE "exited"]
            /\ wexc' = wexc
    /\ UNCHANGED <<inputs, pc, manager, queue, slots, sup_locals, records,
                   checkpoint_initialized, registered, err, interrupted, wmeta, cuda>>

\* variant of RecordError that leaves the copy of __exceptions__ as it was
RecordErrorDropped(exc, task_name, rs_err) == exc

\* variant of RecordError that files the error under a name of its own
RecordErrorUnderOwnName(exc, task_name, rs_err) == Put(exc, "err_" \o task_name, rs_err)

\* _inner, line 373: exceptions[task_name] = rs
RecordError(exc, task_name, rs_err) == Put(exc, task_name, rs_err)

\* _inner, lines 372-374: store the error under the task name, add it to the
\* copy of __exceptions__ and assign the copy back
WorkerRecord(t) ==
    /\ wpc[t] = "record"
    /\ manager = "running"
    /\ LET rs_err == Invoke(t, kwargs[t]).rs IN
       rs' = [rs EXCEPT !.tasks = Put(rs.tasks, TaskName(t), rs_err),
                        !.exceptions = RecordError(wexc[t], TaskName(t), rs_err)]
    /\ wpc' = [wpc EXCEPT ![t] = "set_terminate"]
    /\ wexc' = [wexc EXCEPT ![t] = EmptyMap]  \* the local is dead after the assignment
    /\ UNCHANGED <<inputs, pc, manager, queue, slots, sup_locals, records,
                   checkpoint_initialized, registered, err, interrupted, wmeta, cuda, kwargs>>

\* _inner, line 376 -> _set_terminate, line 299: meta = self.meta
WorkerSetTerminateRead(t) ==
    /\ wpc[t] = "set_terminate"
    /\ manager = "running"
    /\ wmeta' = [wmeta EXCEPT ![t] = rs.meta]
    /\ wpc' = [wpc EXCEPT ![t] = "set_terminate_w"]
    /\ UNCHANGED <<inputs, pc, manager, rs, queue, slots, sup_locals, records,
                   checkpoint_initialized, registered, err, interrupted, wexc, cuda, kwargs>>

\* _set_terminate, lines 300-301, then the process exits
WorkerSetTerminateWrite(t) ==
    /\ wpc[t] = "set_terminate_w"
    /\ manager = "running"
    /\ rs' = [rs EXCEPT !.meta = SetTerminated(wmeta[t])]
    /\ wpc' = [wpc EXCEPT ![t] = "exited"]
    /\ wmeta' = [wmeta EXCEPT ![t] = NoMeta]  \* the local dies with the process
    /\ UNCHANGED <<inputs, pc, manager, queue, slots, sup_locals, records,
                   checkpoint_initialized, registered, err, interrupted, wexc, cuda, kwargs>>

\* _inner, lines 362-364: the interrupt reaches the child while it is in the
\* try block; it returns without writing anything
WorkerInterrupted(t) ==
    /\ wpc[t] = "call"
    /\ interrupted # "none"
    /\ wpc' = [wpc EXCEPT ![t] = "exited"]
    /\ UNCHANGED <<inputs, pc, manager, rs, queue, slots, sup_locals, records,
                   checkpoint_initialized, registered, err, interrupted, wexc, wmeta, cuda, kwargs>>

\* a child that outlives the sync manager: its next access of the store
\* fails and the process dies
WorkerConnectionLost(t) ==
    /\ Alive(t)
    /\ manager = "shutdown"
    /\ wpc' = [wpc EXCEPT ![t] = "exited"]
    /\ wexc' = [wexc EXCEPT ![t] = EmptyMap]
    /\ wmeta' = [wmeta EXCEPT ![t] = NoMeta]
    /\ UNCHANGED <<inputs, pc, manager, rs, queue, slots, sup_locals, records,
                   checkpoint_initialized, registered, err, interrupted, cuda, kwargs>>

Next ==
    \/ StartSyncManager
    \/ Setup
    \/ InitGetProcess
    \/ InitProcesses
    \/ StartInitial
    \/ InitializeRunning
    \/ WaitAndHandleFinish
    \/ AddNewProcesses
    \/ Refresh
    \/ GetProcess
    \/ StartProcess
    \/ AppendProcess
    \/ UserTerminate
    \/ SetTerminateRead
    \/ SetTerminateWrite
    \/ ExceptRead
    \/ ExceptWrite
    \/ Finally
    \/ InterruptSetup
    \/ InterruptTry
    \/ InterruptWait
    \/ InterruptExcept
    \/ InterruptFinally
    \/ \E t \in TaskIds : WorkerCheck(t)
    \/ \E t \in TaskIds : WorkerCall(t)
    \/ \E t \in TaskIds : WorkerRecord(t)
    \/ \E t \in TaskIds : WorkerSetTerminateRead(t)
    \/ \E t \in TaskIds : WorkerSetTerminateWrite(t)
    \/ \E t \in TaskIds : WorkerInterrupted(t)
    \/ \E t \in TaskIds : WorkerConnectionLost(t)

Spec == Init /\ [][Next]_vars

\* the steps of a run in which no interrupt is delivered
NextNoInterrupt ==
    \/ StartSyncManager
    \/ Setup
    \/ InitGetProcess
    \/ InitProcesses
    \/ StartInitial
    \/ InitializeRunning
    \/ WaitAndHandleFinish
    \/ AddNewProcesses
    \/ Refresh
    \/ GetProcess
    \/ StartProcess
    \/ AppendProcess
    \/ UserTerminate
    \/ ExceptRead
    \/ ExceptWrite
    \/ Finally
    \/ \E t \in TaskIds : WorkerCheck(t)
    \/ \E t \in TaskIds : WorkerCall(t)
    \/ \E t \in TaskIds : WorkerRecord(t)
    \/ \E t \in TaskIds : WorkerSetTerminateRead(t)
    \/ \E t \in TaskIds : WorkerSetTerminateWrite(t)

\* runs without an interrupt in which the parent and every worker process
\* keep being scheduled: a step that can be taken is taken eventually (an
\* admission call returns, a worker goes on to its exit, a poll that finds a
\* finished slot returns)
SpecNoInterrupt == Init /\ [][NextNoInterrupt]_vars /\ WF_vars(NextNoInterrupt)

\* the same program run with the GPU options
SpecCuda == InitCuda /\ [][Next]_vars

\* the same program run with the signatures of the task function
SpecSignature == InitSignature /\ [][Next]_vars

\* ---------------------------------------------------------------- properties
Ended == pc \in {"returned", "raised"}

HasResult(t) == TaskName(t) \in DOMAIN rs.tasks
HasException(k) == k \in DOMAIN exceptions

\* the supervisor is at the poll of the main loop or beyond it
AtPollOrBeyond == pc \in {"wait", "user_terminate", "set_terminate", "set_terminate_w",
                          "except", "except_w", "finally", "returned", "raised"}

\* C1: the number of worker processes started and not yet exited never
\* exceeds min(num_jobs, n_tasks).
C1_LiveWithinSlots == Cardinality(LiveSet) <= Min(num_jobs, n_tasks)

\* C1 witness: fewer slots than tasks, a failed initial admission was requeued,
\* and a refill has just started a worker that fills the last slot.
C1_Witness ==
    /\ pc = "append"
    /\ new_process # NoneId
    /\ num_jobs < n_tasks
    /\ Len(all_task_ids) > n_tasks - num_jobs
    /\ Cardinality(LiveSet) = num_jobs

\* C2: a batch that ends with the termination flag false has an entry in the
\* result store for every task id (stated for runs without an interrupt and
\* without a supervisor-side error, where only deferred admissions remain).
C2_AllTasksRecorded ==
    (pc = "returned" /\ ~terminated /\ interrupted = "none" /\ ~HasException("base"))
        => \A t \in TaskIds : HasResult(t)

\* C3: for the identity function the batch returns results[task_name(i)] = v_i
\* for every i, whatever num_jobs is (stated for runs without an interrupt and
\* without a supervisor-side error).
C3_IdentityResults ==
    (func = "identity" /\ pc = "returned" /\ interrupted = "none" /\ ~HasException("base"))
        => \A t \in TaskIds : HasResult(t) /\ rs.tasks[TaskName(t)] = Value(args[t])

\* C4 (as claimed): once the termination flag is true, no step starts a
\* further worker process.
C4_NoSpawnAfterTerminated == [][terminated => StartedSet' \subseteq StartedSet]_vars

\* C4 (amended): once the termination flag is true and the supervisor is at
\* the poll of the main loop (or beyond it), that remains so and no further
\* worker process is started.
C4_NoSpawnOncePolled ==
    [][(terminated /\ AtPollOrBeyond)
          => (terminated' /\ AtPollOrBeyond' /\ StartedSet' = StartedSet)]_vars

\* C4 witness: the supervisor observed the flag at a poll of the main loop
\* while task ids were still pending in the queue.
C4_Witness ==
    /\ pc = "user_terminate"
    /\ terminated
    /\ cursor < Len(all_task_ids)

\* C5: the termination flag starts false and, once true, is never false again.
C5_FlagMonotonic ==
    /\ [](pc = "setup" => ~terminated)
    /\ [][terminated => terminated']_vars

\* C5 witness: the flag is true while a worker is about to assign back a copy
\* of __meta__ it read when the flag was still false.
C5_Witness ==
    \E t \in TaskIds : /\ wpc[t] = "set_terminate_w"
                       /\ ~wmeta[t].terminated
                       /\ terminated

\* C6: when control leaves __call__ after the sync manager was started, the
\* manager is shut down and every started worker has exited.
C6_CleanExit ==
    Ended => (manager = "shutdown" /\ \A t \in StartedSet : wpc[t] = "exited")

\* C7: at the end of a batch every task whose function raised (its error
\* record is in the result store) has an entry in __exceptions__ (stated for
\* runs without an interrupt).
C7_EveryFailureRecorded ==
    (pc = "returned" /\ interrupted = "none")
        => \A t \in TaskIds :
              (HasResult(t) /\ rs.tasks[TaskName(t)].kind = "ValueError")
                  => HasException(TaskName(t))

\* C8: after an interrupt delivered while the batch is running (poll, refill
\* or admission), the final batch has terminated = true and "base" in
\* __exceptions__.
C8_InterruptRecorded ==
    (Ended /\ interrupted \in {"wait", "add", "get_process", "start", "append"})
        => (terminated /\ HasException("base"))

\* C9: a forced termination ends the call by raising; the call returns
\* normally only when termination was not forced (stated for the termination
\* flag: a call that returns normally leaves the flag false).
C9_ForcedTerminationRaises == pc = "returned" => ~terminated

\* C10: a batch of no tasks returns with no results, no exceptions and
\* terminated = false.
C10_EmptyBatch ==
    (n_tasks = 0 /\ Ended /\ interrupted = "none")
        => (pc = "returned" /\ DOMAIN rs.tasks = {} /\ DOMAIN exceptions = {}
            /\ ~terminated)

\* C11: with use_cuda true and an empty available_cuda_list the executor
\* fails at setup with a ResourceUnavailable error and starts no worker
\* (stated for runs without an interrupt).
C11_EmptyCudaListFailsSetup ==
    (use_cuda /\ AvailableCudaList = <<>> /\ interrupted = "none")
        => /\ StartedSet = {}
           /\ pc \notin {"call", "setup"} => (pc = "raised" /\ err = "ResourceUnavailable")

\* the function raises on the argument of task t
Raises(t) == Call(func, args[t]).raised

\* the function returns a value without a truthy terminate key for task t
ReturnsValue(t) == ~Raises(t) /\ Call(func, args[t]).rs.kind = "value"

\* the function returns a mapping with a truthy terminate key for task t
ReturnsTerminate(t) == ~Raises(t) /\ Call(func, args[t]).rs.kind = "terminate"

\* C12, the batches it is about: every task is in the initial wave, every
\* admission was granted (no id was requeued), exactly one task raises, the
\* others return a value, no interrupt.
C12_SingleFailure ==
    /\ interrupted = "none"
    /\ num_jobs >= n_tasks
    /\ all_task_ids = <<>>
    /\ Cardinality({t \in TaskIds : Raises(t)}) = 1
    /\ \A t \in TaskIds : Raises(t) \/ ReturnsValue(t)

\* C12 (as claimed): at the end of such a batch every non-failing task has
\* its returned value recorded, the failing task has an entry in
\* __exceptions__ and terminated is true, under every interleaving.
C12_AllOthersRecorded ==
    (Ended /\ C12_SingleFailure)
        => /\ \A t \in TaskIds :
                 ReturnsValue(t) => (HasResult(t) /\ rs.tasks[TaskName(t)] = Value(args[t]))
           /\ \A t \in TaskIds : Raises(t) => HasException(TaskName(t))
           /\ terminated

\* C12 (amended): at the end of such a batch the failing task has an entry in
\* __exceptions__, terminated is true, and a non-failing task that has an
\* entry has its returned value; a worker that got past the flag check
\* always leaves its entry, so only a worker that read the flag as true at
\* its start leaves none.
C12_OthersRecordedUnlessSkipped ==
    /\ [](Ended /\ C12_SingleFailure
            => /\ \A t \in TaskIds :
                     (ReturnsValue(t) /\ HasResult(t))
                         => rs.tasks[TaskName(t)] = Value(args[t])
               /\ \A t \in TaskIds : Raises(t) => HasException(TaskName(t))
               /\ terminated)
    /\ [][\A t \in TaskIds :
            (interrupted' = "none" /\ ReturnsValue(t)
                /\ wpc[t] = "call" /\ wpc'[t] # "call")
                => (HasResult(t))']_vars

\* C12 witness: such a batch of three tasks ended with one non-failing task
\* recorded and the other one skipped at the flag check.
C12_Witness ==
    /\ pc = "returned"
    /\ C12_SingleFailure
    /\ \E t, u \in TaskIds : /\ ReturnsValue(t) /\ HasResult(t)
                             /\ ReturnsValue(u) /\ ~HasResult(u)

\* task k is the first whose function returns a mapping with a truthy
\* terminate key; the tasks before it return a plain value
FirstTerminate(k) ==
    /\ ReturnsTerminate(k)
    /\ \A j \in 0..(k - 1) : ReturnsValue(j)

\* C13, the batches it is about: one slot, task k the first to return the
\* terminate mapping, every admission of the tasks up to k granted (each of
\* them got its process), no interrupt.
C13_OneSlotTerminate(k) ==
    /\ interrupted = "none"
    /\ num_jobs = 1
    /\ FirstTerminate(k)
    /\ \A j \in 0..k : wpc[j] # "none"

\* C13: at the end of such a batch the tasks 0..k all have their results,
\* terminated is true, and at most one task with an id greater than k was
\* ever started.
C13_TerminateStopsQueue ==
    \A k \in TaskIds :
        (Ended /\ C13_OneSlotTerminate(k))
            => /\ \A j \in 0..k : HasResult(j)
               /\ terminated
               /\ Cardinality({t \in StartedSet : t > k}) <= 1

\* C13 witness: a batch of three tasks on one slot ended after task 1
\* returned the terminate mapping, with task 2 still in the queue.
C13_Witness ==
    /\ pc = "returned"
    /\ n_tasks = 3
    /\ C13_OneSlotTerminate(1)
    /\ HasResult(0) /\ HasResult(1)
    /\ cursor < Len(all_task_ids)

\* task names that have an entry in the results or in __exceptions__
RecordedNames == DOMAIN rs.tasks \cup (DOMAIN exceptions \ {"base"})

\* C14 (as claimed): in the final batch the number of task entries in the
\* results plus the number of entries of __exceptions__ is at most n_tasks
\* (stated for the runs without an interrupt in which a worker raised).
C14_EntriesWithinTasks ==
    (Ended /\ interrupted = "none" /\ \E t \in TaskIds : HasException(TaskName(t)))
        => Cardinality(DOMAIN rs.tasks) + Cardinality(DOMAIN exceptions) <= n_tasks

\* C14 (amended): in the final batch the number of distinct task names with
\* an entry in the results or in __exceptions__ is at most n_tasks; the only
\* other key __exceptions__ can hold is "base".
C14_NamesWithinTasks ==
    Ended => /\ Cardinality(RecordedNames) <= n_tasks
             /\ DOMAIN exceptions \subseteq {TaskName(t) : t \in TaskIds} \cup {"base"}

\* C14 witness: a batch ended with a task that raised in both maps and with
\* the "base" entry, more entries in total than tasks.
C14_Witness ==
    /\ pc = "returned"
    /\ \E t \in TaskIds : HasResult(t) /\ HasException(TaskName(t))
    /\ HasException("base")
    /\ Cardinality(DOMAIN rs.tasks) + Cardinality(DOMAIN exceptions) > n_tasks

\* C15: the sync manager is never shut down while a started worker process
\* is still alive, also when the parent is interrupted between a worker's
\* start() and its insertion into the slot list.
C15_ShutdownAfterWorkersExit == manager = "shutdown" => LiveSet = {}

\* C16: when the initial admissions are done (no interrupt, a non-empty
\* batch), whatever subset of them failed, the failed ids are at the head of
\* the pending queue in their order, ahead of the ids J..N-1, and the
\* supervisor goes on to start the initial wave and enter the main loop
\* without an error.
C16_InitFailuresRequeued ==
    [][(pc = "init_admit" /\ pc' # "init_admit" /\ interrupted' = "none" /\ n_tasks > 0)
          => /\ all_task_ids'
                   = InitFailedTaskIds(init_processes) \o Range(rs.meta.n_jobs, n_tasks)
             /\ cursor' = 0
             /\ pc' = "init_start"
             /\ err' = "none"]_vars

\* C17: a task id whose admission was deferred in a refill is offered again
\* later: no id is consumed from the pending queue (left behind the cursor)
\* without a worker process having been created for it (stated for runs
\* without an interrupt).
C17_DeferredIdStaysQueued ==
    interrupted = "none"
        => \A i \in 1..cursor : wpc[all_task_ids[i]] # "none"

\* C18: in every iteration of the running loop whose poll found finished
\* slots, these slots are reaped through the resource manager (their worker
\* records are gone) and emptied before the termination flag is acted upon,
\* also in the iteration that observes the flag and goes to terminating.
C18_FinishedReapedFirst ==
    [][(pc \in {"wait", "get_process"} /\ pc' \in {"add", "user_terminate"})
          => /\ FinishedProcesses \cap records' = {}
             /\ working_processes' = PopAll(working_processes, FinishedSlots)
             /\ working_task_ids' = PopAll(working_task_ids, FinishedSlots)]_vars

\* the function of task t raised in its worker: the error record is in the store
WorkerRaised(t) == HasResult(t) /\ rs.tasks[TaskName(t)].kind = "ValueError"

\* C19: the step that leaves terminating is taken only when every worker in
\* the slots has exited; it raises "terminated by user action" iff
\* __exceptions__ is empty at that moment and "terminated by unexpected
\* errors" otherwise; if a worker's function raised the error is always
\* "unexpected errors", and if none did (only terminate mappings were
\* returned) it is "user action".
C19_TerminateMessage ==
    [][(pc = "user_terminate" /\ pc' = "except" /\ interrupted' = interrupted)
          => /\ AllJoined
             /\ terminated
             /\ IF DOMAIN exceptions = {}
                THEN err' = "Parallel terminated by user action"
                ELSE err' = "Parallel terminated by unexpected errors"
             /\ (\E t \in TaskIds : WorkerRaised(t))
                    => err' = "Parallel terminated by unexpected errors"
             /\ (~\E t \in TaskIds : WorkerRaised(t))
                    => /\ err' = "Parallel terminated by user action"
                       /\ \E t \in TaskIds : HasResult(t) /\ ReturnsTerminate(t)]_vars

\* C19 witness: terminating was left with "unexpected errors" in a batch in
\* which one worker returned the terminate mapping and another one raised.
C19_Witness ==
    /\ pc = "except"
    /\ err = "Parallel terminated by unexpected errors"
    /\ \E t, u \in TaskIds : /\ WorkerRaised(t)
                             /\ HasResult(u) /\ ReturnsTerminate(u)

\* C20: a worker that reads the termination flag as true at the top of
\* _inner returns at once: the step exits the process and changes nothing in
\* the store (no entry under its task name, __exceptions__ and __meta__ as
\* they were), and an exited worker never writes an entry afterwards.
C20_SkippedWorkerWritesNothing ==
    [][\A t \in TaskIds :
          /\ (wpc[t] = "check" /\ wpc'[t] # "check" /\ terminated /\ manager = "running")
                => (wpc'[t] = "exited" /\ rs' = rs)
          /\ wpc[t] = "exited"
                => (wpc'[t] = "exited" /\ (HasResult(t))' = HasResult(t))]_vars

\* C20 witness: a worker whose function would have returned a value has
\* exited without an entry, the flag being true and no interrupt delivered.
C20_Witness ==
    \E t \in TaskIds : /\ wpc[t] = "exited"
                       /\ ReturnsValue(t)
                       /\ ~HasResult(t)
                       /\ terminated
                       /\ interrupted = "none"

\* the function declares a parameter of that name that can be passed by keyword
DeclaresByKeyword(name) ==
    \E i \in 1..Len(signature) :
        /\ signature[i].name = name
        /\ signature[i].kind \in {"POSITIONAL_OR_KEYWORD", "KEYWORD_ONLY"}

\* the function accepts an open keyword map
AcceptsKeywordMap == \E i \in 1..Len(signature) : signature[i].kind = "VAR_KEYWORD"

\* the function declares no parameter named cuda or log_method and no
\* keyword map
DeclaresNeither ==
    \A i \in 1..Len(signature) :
        /\ signature[i].name \notin {"cuda", "log_method"}
        /\ signature[i].kind # "VAR_KEYWORD"

\* C21: whatever the signature of the function, the worker that calls it
\* passes the keyword cuda iff the function declares a parameter cuda that
\* can be passed by keyword (positional-or-keyword or keyword-only) or accepts
\* a keyword map, and likewise log_method; a function declaring neither is
\* called without keywords and does not raise, with use_cuda true or false
\* (stated for the calls made without an interrupt).
C21_CapabilitiesPassedIffDeclared ==
    [][\A t \in TaskIds :
          (interrupted = "none" /\ wpc[t] = "call" /\ wpc'[t] # "call")
              => /\ "cuda" \in kwargs'[t]
                     <=> (DeclaresByKeyword("cuda") \/ AcceptsKeywordMap)
                 /\ "log_method" \in kwargs'[t]
                     <=> (DeclaresByKeyword("log_method") \/ AcceptsKeywordMap)
                 /\ DeclaresNeither => (kwargs'[t] = {} /\ wpc'[t] # "record")]_vars

\* the supervisor is at a poll of the slots: the one of the main loop or the
\* one of a refresh during an admission
AtPoll == working_assigned /\ (pc = "wait" \/ (pc = "get_process" /\ checkpoint_initialized))

\* slot i holds a process and its task id, or the None marker in both arrays
\* (a process handle of the model is the task id it runs)
SlotAligned(i) ==
    IF working_processes[i] = NoneId THEN working_task_ids[i] = NoneId
    ELSE working_task_ids[i] = working_processes[i]

\* the entries of a slot array outside the finished slots, in their order
Survivors(list) ==
    LET keep == SelectSeq(Range(1, Len(list) + 1),
                          LAMBDA i : \A k \in 1..Len(FinishedSlots) : FinishedSlots[k] # i)
    IN  [k \in 1..Len(keep) |-> list[keep[k]]]

\* C22: at every poll the two slot arrays have the same length and are
\* aligned slot by slot (a task id with its process, or None in both), and a
\* reap removes exactly the finished slots of its poll and keeps the others
\* in their order.
C22_SlotArraysAligned ==
    /\ [](AtPoll => /\ Len(working_task_ids) = Len(working_processes)
                    /\ \A i \in 1..Len(working_processes) : SlotAligned(i))
    /\ [][(AtPoll /\ pc' \in {"add", "get_process"}
               /\ working_processes' # working_processes)
              => /\ working_processes' = Survivors(working_processes)
                 /\ working_task_ids' = Survivors(working_task_ids)]_vars

\* C23: task ids leave the pending queue in queue order and are started at
\* most once: the queue holds no id twice, the cursor moves forward one
\* position at a time over a queue that no longer changes, the ids behind the
\* position under the cursor have no process yet, and a task id that has a
\* process never gets another one.
C23_QueueOrderStartedOnce ==
    /\ [](\A i, j \in 1..Len(all_task_ids) :
              i # j => all_task_ids[i] # all_task_ids[j])
    /\ [](\A i \in (cursor + 2)..Len(all_task_ids) : wpc[all_task_ids[i]] = "none")
    /\ [][cursor' = cursor \/ (cursor' = cursor + 1 /\ all_task_ids' = all_task_ids)]_vars
    /\ [][\A t \in TaskIds :
            /\ (wpc[t] # "none" /\ wpc'[t] = "created") => wpc[t] = "created"
            /\ (pc = "get_process" /\ wpc[t] = "none" /\ wpc'[t] = "created")
                  => t = all_task_ids[cursor + 1]]_vars

\* C23 witness: an id of the initial wave whose admission failed was requeued
\* and has now been started by a refill.
C23_Witness ==
    /\ pc = "append"
    /\ new_process # NoneId
    /\ new_process < rs.meta.n_jobs
    /\ Started(new_process)
    /\ all_task_ids[cursor + 1] = new_process

\* the supervisor is in the running state: the main loop of lines 158-162
Running == pc \in {"wait", "add", "get_process", "start", "append"}

\* no slot holds a worker process
NoWorkerInSlots == \A i \in 1..Len(working_processes) : working_processes[i] = NoneId

\* C24: in a run without an interrupt in which every step that can be taken
\* is taken eventually, the supervisor always leaves the running state and
\* the call ends; it never polls an empty slot list; and the main loop is
\* left for drained exactly when the pending queue is exhausted and no slot
\* holds a worker, otherwise only through terminating.
C24_LeavesRunning ==
    /\ Running ~> ~Running
    /\ [](pc = "wait" => working_processes # <<>>)
    /\ [][pc = "add"
            => (pc' = "finally"
                  <=> (cursor >= Len(all_task_ids) /\ NoWorkerInSlots))]_vars
    /\ [][(Running /\ ~Running')
            => \/ pc = "add" /\ pc' = "finally"
               \/ pc' = "user_terminate" /\ terminated]_vars

\* C24 witness: the main loop was left for drained after the pending queue,
\* refilled from, was exhausted, and the call returned with the flag false.
C24_Witness ==
    /\ pc = "returned"
    /\ ~terminated
    /\ cursor > 0
    /\ cursor = Len(all_task_ids)
    /\ working_processes = <<>>
====
